---- MODULE Spec2Model ----
(***************************************************************************)
(* apikit/sdk.py: APIKit.request (blocking) and APIKitAsync.request        *)
(* (suspending), their retry recursion, and log_exception.                 *)
(*                                                                         *)
(* One blocking call and one suspending call are run with the same         *)
(* arguments against the same scripted transport: attempt number k of      *)
(* either call meets script[k].  The script is extended by the             *)
(* environment whenever a call makes an attempt the script has not yet     *)
(* decided.                                                                *)
(*                                                                         *)
(* Spec varies the retry budget and the output mode; SpecEnc the encoding  *)
(* arguments and the path; SpecDiag the timeout, the environment variable  *)
(* and debug; SpecAuth adds authenticate between the calls; SpecConc runs  *)
(* two suspending calls together that may share the caller's headers dict. *)
(***************************************************************************)
EXTENDS Integers, Sequences, FiniteSets, TLC

VARIABLES args, environ, script, call, url, auth, heap, task

vars == <<args, environ, script, call, url, auth, heap, task>>

\* ------------------------------------------------------------------ bounds

\* Largest retry budget a caller passes.
MaxRetries == 2

\* Longest transport script: a call that needs one more attempt than this
\* is not continued.
MaxAttempts == 3

\* Most authenticate calls made on one client.
MaxAuthCalls == 2

\* ------------------------------------------------------- python values

\* Python's None, as a record so that it compares with dicts and Responses.
None == [none |-> TRUE]

\* A present optional value (an int timeout, a dict's items).
Some(v) == [none |-> FALSE, v |-> v]

\* bool(x) of an optional int: None and 0 are falsy.
TruthyInt(x) == ~x.none /\ x.v # 0

\* bool(x) of an optional dict (a sequence of <<key, value>>): None and {} are falsy.
TruthyDict(x) == ~x.none /\ Len(x.v) > 0

\* A JSON scalar a caller puts in params or headers: an int or a str.
JInt(n) == [t |-> "int", v |-> n]

JStr(s) == [t |-> "str", v |-> s]

\* str(v): the decimal digits of an int, a str itself.
Str(x) == JStr(IF x.t = "int" THEN ToString(x.v) ELSE x.v)

\* {k: str(v) for k, v in d.items()}
StrItems(items) == [i \in 1..Len(items) |-> <<items[i][1], Str(items[i][2])>>]

\* d[k] = v on an ordered dict: an existing key keeps its place.
DictSet(items, k, v) ==
    IF \E i \in 1..Len(items) : items[i][1] = k
    THEN [i \in 1..Len(items) |-> IF items[i][1] = k THEN <<k, v>> ELSE items[i]]
    ELSE Append(items, <<k, v>>)

\* ------------------------------------------------ exceptions (httpx, builtins)

\* Raised by client.request, before r is assigned.
TransportExc ==
    {"ConnectError", "ConnectTimeout", "ReadTimeout", "HTTPError",
     "DecodingError", "UnicodeDecodeError", "InvalidURL"}

\* The classes an exception is an instance of.  Every httpx transport
\* exception derives from httpx.HTTPError; httpx.InvalidURL, the builtins
\* and orjson's JSONDecodeError do not.
ExcBases(e) ==
    IF e \in {"ConnectError", "ConnectTimeout", "ReadTimeout", "DecodingError"}
    THEN {e, "HTTPError", "Exception"}
    ELSE {e, "Exception"}

IsInstance(e, classes) == ExcBases(e) \cap classes # {}

\* str(e)
ExcMsg(e) == "msg:" \o e

\* type(e) formatted in an f-string
ExcType(e) == "<class '" \o e \o "'>"

\* ------------------------------------------------------------ responses

Statuses == {200, 500}

EmptyBody == ""
JsonBody == "{\"ok\": true}"
HtmlBody == "<html>not json</html>"
BadUtf8Body == "0xFF"

Bodies == {EmptyBody, JsonBody, HtmlBody, BadUtf8Body}

\* r.content: the body's bytes.
Content(r) == r.body

\* r.text: the body decoded to str, undecodable bytes replaced.
Text(r) == IF r.body = BadUtf8Body THEN "U+FFFD" ELSE r.body

\* The exception json.loads raises on the bytes, "" when it parses them:
\* bytes that are no text fail to decode (the UnicodeDecodeError the except
\* clause names), text that is no JSON fails to parse (orjson's
\* JSONDecodeError, a ValueError).
LoadsExc(b) ==
    CASE b = JsonBody -> ""
      [] b = BadUtf8Body -> "UnicodeDecodeError"
      [] OTHER -> "JSONDecodeError"

\* json.loads(b) of bytes it parses: a JSON object as a set of <<key, value>>.
Loads(b) == [obj |-> {<<"ok", TRUE>>}]

\* The literal {} the code returns for an empty body and on a decoding failure.
EmptyObject == [obj |-> {}]

\* What one attempt meets: client.request raises, or returns a response.
Outcomes ==
    [kind : {"raise"}, exc : TransportExc]
    \cup [kind : {"response"}, status_code : Statuses, body : Bodies]

\* ------------------------------------------------------------ arguments

\* The keyword defaults of request.
Defaults ==
    [method |-> "POST", params |-> None, headers |-> None,
     use_msgpack |-> FALSE, input_form_encoded |-> FALSE,
     output_json |-> TRUE, output_binary |-> FALSE,
     timeout |-> None, retries |-> 0, delay_secs |-> 2, debug |-> TRUE]

\* The hardcoded fallback of APIKIT_REQUEST_TIMEOUT_SECS.
DefaultTimeoutSecs == 5

\* timeout = timeout or int(os.getenv("APIKIT_REQUEST_TIMEOUT_SECS", "5"))
EffectiveTimeout(timeout, env) ==
    IF TruthyInt(timeout) THEN timeout.v
    ELSE IF env.none THEN DefaultTimeoutSecs ELSE env.v

\* The headers local after the encoding branch: the MsgPack branch rebinds
\* it to (headers or {}) and sets Content-Type on that dict.
HeadersAfterEncoding(a) ==
    IF a.method # "GET" /\ a.use_msgpack
    THEN Some(DictSet(IF TruthyDict(a.headers) THEN a.headers.v ELSE <<>>,
                      "Content-Type", JStr("application/msgpack")))
    ELSE a.headers

\* The locals of one invocation when it reaches client.request.
Locals(a, env) ==
    [a EXCEPT !.timeout = Some(EffectiveTimeout(a.timeout, env)),
              !.headers = HeadersAfterEncoding(a)]

\* The keyword arguments of the recursive self.request(...): the ten the
\* call site names, the rest at their defaults.
RetryArgs(loc) ==
    [Defaults EXCEPT !.params = loc.params, !.headers = loc.headers,
                     !.method = loc.method,
                     !.input_form_encoded = loc.input_form_encoded,
                     !.output_json = loc.output_json,
                     !.timeout = loc.timeout, !.debug = loc.debug,
                     !.retries = loc.retries - 1,
                     !.delay_secs = loc.delay_secs]
    @@ [path |-> loc.path]

\* ------------------------------------------------------- the wire request

\* The body argument of client.request: content=msgpack.packb(params),
\* data=params or json=params, as the encoding and what it encodes.
Body(enc, params) == [none |-> FALSE, enc |-> enc, of |-> params]

\* Wire with the form branch tested before the MsgPack branch.
Wire_FormBeforeMsgPack(loc) ==
    LET base == [method |-> loc.method, url |-> loc.path,
                 query |-> None, body |-> None,
                 headers |-> IF TruthyDict(loc.headers)
                             THEN Some(StrItems(loc.headers.v)) ELSE None,
                 timeout |-> loc.timeout.v]
    IN IF loc.method = "GET"
       THEN IF TruthyDict(loc.params)
            THEN [base EXCEPT !.query = Some(StrItems(loc.params.v))]
            ELSE base
       ELSE IF loc.input_form_encoded
       THEN [base EXCEPT !.body = Body("form", loc.params)]
       ELSE IF loc.use_msgpack
       THEN [base EXCEPT !.body = Body("msgpack", loc.params)]
       ELSE [base EXCEPT !.body = Body("json", loc.params)]

\* The arguments client.request receives from the invocation with locals
\* loc: method and path as they are, params= for a GET with params,
\* content=, data= or json= otherwise, the headers stringified.
Wire(loc) ==
    LET base == [method |-> loc.method, url |-> loc.path,
                 query |-> None, body |-> None,
                 headers |-> IF TruthyDict(loc.headers)
                             THEN Some(StrItems(loc.headers.v)) ELSE None,
                 timeout |-> loc.timeout.v]
    IN IF loc.method = "GET"
       THEN IF TruthyDict(loc.params)
            THEN [base EXCEPT !.query = Some(StrItems(loc.params.v))]
            ELSE base
       ELSE IF loc.use_msgpack
       THEN [base EXCEPT !.body = Body("msgpack", loc.params)]
       ELSE IF loc.input_form_encoded
       THEN [base EXCEPT !.body = Body("form", loc.params)]
       ELSE [base EXCEPT !.body = Body("json", loc.params)]

\* ------------------------------------------------------- diagnostic echo

\* " ".join(parts)
RECURSIVE Join(_)
Join(parts) ==
    IF parts = <<>> THEN ""
    ELSE IF Len(parts) = 1 THEN parts[1]
    ELSE parts[1] \o " " \o Join(Tail(parts))

\* f"{json.dumps(v)}": orjson's dumps returns bytes, which format as a
\* bytes literal.
DumpsFormatted(x) ==
    "b'" \o (IF x.t = "int" THEN ToString(x.v) ELSE "\"" \o x.v \o "\"") \o "'"

\* f"{v!r}"
Repr(x) == IF x.t = "int" THEN ToString(x.v) ELSE "'" \o x.v \o "'"

\* " ".join(f"{k}:={json.dumps(v)}" for k, v in params.items()) if params else ""
ParamsStr(params) ==
    IF TruthyDict(params)
    THEN Join([i \in 1..Len(params.v) |->
                  params.v[i][1] \o ":=" \o DumpsFormatted(params.v[i][2])])
    ELSE ""

\* HeadersStr with the value's repr for every status.
HeadersStr_NeverRedacted(headers, redact) ==
    IF TruthyDict(headers)
    THEN Join([i \in 1..Len(headers.v) |->
                  headers.v[i][1] \o ":" \o Repr(headers.v[i][2])])
    ELSE ""

\* The headers of the echoed request line: "k:?" for a status >= 400,
\* "k:" and the value's repr otherwise.
HeadersStr(headers, redact) ==
    IF TruthyDict(headers)
    THEN Join([i \in 1..Len(headers.v) |->
                  headers.v[i][1] \o ":"
                  \o (IF redact THEN "?" ELSE Repr(headers.v[i][2]))])
    ELSE ""

\* The two lines printed after a response: always for a status >= 400,
\* for another status only with debug.
EchoLines(loc, r) ==
    IF r.status_code >= 400 \/ loc.debug
    THEN << "http --follow --verify=no " \o loc.method \o " " \o loc.path \o " "
            \o ParamsStr(loc.params) \o " "
            \o HeadersStr(loc.headers, r.status_code >= 400),
            "> " \o ToString(r.status_code) \o " " \o Text(r) >>
    ELSE <<>>

\* ---------------------------------------------------------- log_exception

\* The line log_exception prints, none when no branch is taken.
LogExceptionLines(method, path, e, timeout) ==
    IF IsInstance(e, {"ConnectError", "HTTPError"})
          \/ (~IsInstance(e, {"ConnectTimeout", "ReadTimeout"})
              /\ IsInstance(e, {"DecodingError", "UnicodeDecodeError"}))
    THEN << "http --follow --verify=no " \o method \o " " \o path \o " > "
            \o ExcMsg(e) >>
    ELSE IF IsInstance(e, {"ConnectTimeout", "ReadTimeout"})
    THEN << "http --follow --verify=no " \o method \o " " \o path
            \o " > [timeout " \o ToString(timeout) \o "s] " \o ExcMsg(e) >>
    ELSE <<>>


\* log_exception(method, path, r, e, timeout) with r bound: the Response it
\* returns, None when no branch is taken.
log_exception(method, path, r, e, timeout) ==
    IF IsInstance(e, {"ConnectError"})
    THEN [is_success |-> FALSE, status_code |-> -3,
          summary |-> "Connection error: " \o ExcType(e) \o " " \o ExcMsg(e)
                      \o " " \o path]
    ELSE IF IsInstance(e, {"HTTPError"})
    THEN [is_success |-> FALSE, status_code |-> -4,
          summary |-> ExcType(e) \o ": " \o ExcMsg(e)]
    ELSE IF IsInstance(e, {"ConnectTimeout", "ReadTimeout"})
    THEN [is_success |-> FALSE, status_code |-> -5,
          summary |-> "Timeout (" \o ToString(timeout) \o "s) for " \o path]
    ELSE IF IsInstance(e, {"DecodingError", "UnicodeDecodeError"})
    THEN [status_code |-> r.status_code, is_success |-> FALSE,
          data |-> EmptyObject, text |-> Text(r),
          summary |-> ToString(r.status_code) \o " error " \o ExcMsg(e)]
    ELSE None

\* ------------------------------------------------------- one invocation

Modes == {"sync", "async"}

\* The local r before client.request has returned: declared, never assigned.
Unbound == [unbound |-> TRUE]

IsBound(r) == "unbound" \notin DOMAIN r

\* is_success without its upper bound.
IsSuccess_NoUpperBound(status_code) == status_code >= 200

\* is_success: bool = bool(r.status_code >= 200 and r.status_code <= 299)
IsSuccess(status_code) == status_code >= 200 /\ status_code <= 299

\* The except clause of the invocation: the five classes APIKit.request
\* names, Exception for APIKitAsync.request.
Caught(mode, e) ==
    IF mode = "sync"
    THEN IsInstance(e, {"ConnectTimeout", "ConnectError", "HTTPError",
                        "DecodingError", "UnicodeDecodeError"})
    ELSE IsInstance(e, {"Exception"})

\* The handler of exception e in an invocation with locals loc, r as it is
\* at that moment: not caught, retry from the handler, or
\* return log_exception(method, path, r, e, timeout), whose argument r
\* raises UnboundLocalError when r was never assigned.
Handler(mode, loc, e, r) ==
    IF ~Caught(mode, e) THEN [kind |-> "raise", exc |-> e, out |-> <<>>]
    ELSE IF loc.retries > 0 THEN [kind |-> "retry", at |-> "except", out |-> <<>>]
    ELSE IF ~IsBound(r)
    THEN [kind |-> "raise", exc |-> "UnboundLocalError", out |-> <<>>]
    ELSE [kind |-> "return",
          value |-> log_exception(loc.method, loc.path, r, e, loc.timeout.v),
          out |-> LogExceptionLines(loc.method, loc.path, e, loc.timeout.v)]

\* f"{r.status_code} {'success' if is_success else 'fail: ' + r.text}"
Summary(r) ==
    ToString(r.status_code) \o " "
    \o (IF IsSuccess(r.status_code) THEN "success" ELSE "fail: " \o Text(r))

\* BuildResponse without the test for an empty body before json.loads.
BuildResponse_NoEmptyTest(loc, r) ==
    IF loc.output_binary
    THEN [status_code |-> r.status_code, is_success |-> IsSuccess(r.status_code),
          content |-> Content(r), summary |-> Summary(r)]
    ELSE IF loc.output_json
    THEN [status_code |-> r.status_code, is_success |-> IsSuccess(r.status_code),
          data |-> Loads(Content(r)), summary |-> Summary(r)]
    ELSE [status_code |-> r.status_code, is_success |-> IsSuccess(r.status_code),
          text |-> Text(r), summary |-> Summary(r)]

\* The Response dict built from a received response whose body, when it is
\* parsed, parses.
BuildResponse(loc, r) ==
    IF loc.output_binary
    THEN [status_code |-> r.status_code, is_success |-> IsSuccess(r.status_code),
          content |-> Content(r), summary |-> Summary(r)]
    ELSE IF loc.output_json
    THEN [status_code |-> r.status_code, is_success |-> IsSuccess(r.status_code),
          data |-> IF Content(r) # EmptyBody THEN Loads(Content(r)) ELSE EmptyObject,
          summary |-> Summary(r)]
    ELSE [status_code |-> r.status_code, is_success |-> IsSuccess(r.status_code),
          text |-> Text(r), summary |-> Summary(r)]

\* Whether building the Response calls json.loads on bytes it cannot parse.
ParseFails(loc, r) ==
    /\ ~loc.output_binary
    /\ loc.output_json
    /\ Content(r) # EmptyBody
    /\ LoadsExc(Content(r)) # ""

\* TryBody with the retry decided by the budget alone, whatever the status.
TryBody_RetryAnyStatus(mode, loc, o) ==
    IF o.kind = "raise" THEN Handler(mode, loc, o.exc, Unbound)
    ELSE IF loc.retries > 0
    THEN [kind |-> "retry", at |-> "try", out |-> EchoLines(loc, o)]
    ELSE IF ParseFails(loc, o)
    THEN [Handler(mode, loc, LoadsExc(Content(o)), o)
             EXCEPT !.out = EchoLines(loc, o) \o @]
    ELSE [kind |-> "return", value |-> BuildResponse(loc, o),
          out |-> EchoLines(loc, o)]

\* The try block of one invocation meeting outcome o: how the invocation
\* goes on (a recursive call from the try block or from the handler, a
\* return, a raise) and the lines it printed.
TryBody(mode, loc, o) ==
    IF o.kind = "raise" THEN Handler(mode, loc, o.exc, Unbound)
    ELSE IF ~IsSuccess(o.status_code) /\ loc.retries > 0
    THEN [kind |-> "retry", at |-> "try", out |-> EchoLines(loc, o)]
    ELSE IF ParseFails(loc, o)
    THEN [Handler(mode, loc, LoadsExc(Content(o)), o)
             EXCEPT !.out = EchoLines(loc, o) \o @]
    ELSE [kind |-> "return", value |-> BuildResponse(loc, o),
          out |-> EchoLines(loc, o)]

\* ------------------------------------------------------------ the calls

\* The arguments the caller passes: every retry budget up to MaxRetries
\* (and a negative one), each output mode, MsgPack or not; the other
\* arguments at values that differ from the keyword defaults.
CallerArgs ==
    {[path |-> "https://api.test/status/ping", method |-> "PUT",
      params |-> Some(<< <<"q", JInt(1)>> >>),
      headers |-> Some(<< <<"Authorization", JStr("secret")>> >>),
      use_msgpack |-> mp, input_form_encoded |-> TRUE,
      output_json |-> oj, output_binary |-> ob,
      timeout |-> Some(3), retries |-> n, delay_secs |-> 1, debug |-> FALSE] :
        mp \in BOOLEAN, oj \in BOOLEAN, ob \in BOOLEAN, n \in -1..MaxRetries}

\* A call not yet made.
Idle ==
    [pc |-> "idle", frames |-> <<>>, cur |-> None, result |-> None,
     attempts |-> 0, events |-> <<>>, log |-> <<>>, sent |-> <<>>,
     echo |-> <<>>, out |-> <<>>, open |-> 0]

\* The headers dict a caller holds and passes to its calls.
CallerHeaders == << <<"Authorization", JStr("secret")>>, <<"X-Count", JInt(7)>> >>

\* The suspending calls one caller runs together on one event loop.
Tasks == {"A", "B"}

\* A suspending call not yet started.
IdleTask ==
    [pc |-> "idle", given |-> None, cur |-> None, waits |-> None, sent |-> <<>>]

\* The base URL the constructor is given (self.url).
BaseUrl == "https://api.test"

\* The state every specification starts from, the caller's arguments and
\* the environment variable apart: the client constructed, nothing called.
Constructed ==
    /\ script = <<>>
    /\ call = [m \in Modes |-> Idle]
    /\ url = BaseUrl
    /\ auth = <<>>
    /\ heap = CallerHeaders
    /\ task = [t \in Tasks |-> IdleTask]

Init ==
    /\ args \in CallerArgs
    /\ environ = None
    /\ Constructed

\* The caller invokes request(**args); the suspending call is awaited after
\* the blocking one has ended.
Request(m) ==
    /\ call[m].pc = "idle"
    /\ m = "async" => call["sync"].pc = "done"
    /\ call' = [call EXCEPT ![m].pc = "call", ![m].cur = args]
    /\ UNCHANGED <<args, environ, script, url, auth, heap, task>>

\* After with a with block that an exception leaves without closing the
\* client.
After_LeakOnRaise(c, loc, r, st, evs) ==
    IF st.kind = "retry"
    THEN [c EXCEPT !.pc = "call",
                   !.frames = Append(@, [loc |-> loc, r |-> r, at |-> st.at]),
                   !.cur = RetryArgs(loc),
                   !.result = None,
                   !.events = @ \o evs \o <<"sleep">>,
                   !.out = @ \o st.out]
    ELSE [c EXCEPT !.pc = IF c.frames = <<>> THEN "done" ELSE "unwind",
                   !.result = IF st.kind = "return"
                              THEN [kind |-> "return", value |-> st.value]
                              ELSE [kind |-> "raise", exc |-> st.exc],
                   !.events = @ \o evs,
                   !.out = @ \o st.out,
                   !.open = IF st.kind = "return" THEN @ - 1 ELSE @]

\* What became of the invocation with locals loc and response r after step
\* st of it: a recursive call sleeps and then waits, inside the with block,
\* for the call it made; a return or a raise leaves the with block, which
\* closes the invocation's client.
After(c, loc, r, st, evs) ==
    IF st.kind = "retry"
    THEN [c EXCEPT !.pc = "call",
                   !.frames = Append(@, [loc |-> loc, r |-> r, at |-> st.at]),
                   !.cur = RetryArgs(loc),
                   !.result = None,
                   !.events = @ \o evs \o <<"sleep">>,
                   !.out = @ \o st.out]
    ELSE [c EXCEPT !.pc = IF c.frames = <<>> THEN "done" ELSE "unwind",
                   !.result = IF st.kind = "return"
                              THEN [kind |-> "return", value |-> st.value]
                              ELSE [kind |-> "raise", exc |-> st.exc],
                   !.events = @ \o evs,
                   !.out = @ \o st.out,
                   !.open = @ - 1]

\* One invocation of request, from its first line to its recursive call,
\* return or raise: attempt k of the call opens a client, hands Wire(loc)
\* to client.request and meets script[k]; echo keeps the lines the
\* invocation printed until then.
Attempt(m) ==
    /\ call[m].pc = "call"
    /\ LET c == call[m]
           k == c.attempts + 1
           loc == Locals(c.cur, environ)
       IN /\ k <= MaxAttempts
          /\ \E o \in Outcomes :
                /\ IF k <= Len(script) THEN o = script[k] /\ script' = script
                   ELSE script' = Append(script, o)
                /\ call' = [call EXCEPT ![m] =
                       After([c EXCEPT !.attempts = k, !.log = Append(@, c.cur),
                                       !.sent = Append(@, Wire(loc)),
                                       !.echo = Append(@, TryBody(m, loc, o).out),
                                       !.open = @ + 1],
                             loc, IF o.kind = "raise" THEN Unbound ELSE o,
                             TryBody(m, loc, o), <<"attempt">>)]
    /\ UNCHANGED <<args, environ, url, auth, heap, task>>

\* The recursive call of the innermost waiting invocation has ended: a
\* value is returned on; an exception that left a call made in the try
\* block meets this invocation's handler, one that left a call made in the
\* handler goes on up.
Unwind(m) ==
    /\ call[m].pc = "unwind"
    /\ LET c == call[m]
           f == c.frames[Len(c.frames)]
           below == [c EXCEPT !.frames = SubSeq(@, 1, Len(@) - 1)]
           st == IF c.result.kind = "raise" /\ f.at = "try"
                 THEN Handler(m, f.loc, c.result.exc, f.r)
                 ELSE c.result @@ [out |-> <<>>]
       IN call' = [call EXCEPT ![m] = After(below, f.loc, f.r, st, <<>>)]
    /\ UNCHANGED <<args, environ, script, url, auth, heap, task>>

Next == \E m \in Modes : Request(m) \/ Attempt(m) \/ Unwind(m)

Spec == Init /\ [][Next]_vars

\* ------------------------------------------- the calls, encoding varied

\* A path with no scheme and host, and one with them.
RelativePath == "/status/ping"

AbsolutePath == "https://api.test/status/ping"

\* Arguments that reach every encoding branch: GET or not, params absent,
\* empty or not, headers absent or not, MsgPack and form flags.
EncodingArgs ==
    {[path |-> p, method |-> me,
      params |-> ps, headers |-> hs,
      use_msgpack |-> mp, input_form_encoded |-> fe,
      output_json |-> TRUE, output_binary |-> FALSE,
      timeout |-> Some(3), retries |-> n, delay_secs |-> 1, debug |-> FALSE] :
        p \in {RelativePath, AbsolutePath}, me \in {"GET", "POST"},
        ps \in {None, Some(<<>>), Some(<< <<"q", JInt(1)>>, <<"s", JStr("x")>> >>)},
        hs \in {None, Some(CallerHeaders)},
        mp \in BOOLEAN, fe \in BOOLEAN, n \in {0, 1}}

InitEnc ==
    /\ args \in EncodingArgs
    /\ environ = None
    /\ Constructed

SpecEnc == InitEnc /\ [][Next]_vars

\* ------------------------- the calls, timeout and diagnostics varied

\* Arguments that reach every way the timeout and the echo are decided:
\* timeout absent, 0 or positive, debug on or off, headers absent or not,
\* MsgPack or not.
DiagnosticArgs ==
    {[path |-> AbsolutePath, method |-> "POST",
      params |-> Some(<< <<"q", JInt(1)>> >>), headers |-> hs,
      use_msgpack |-> mp, input_form_encoded |-> FALSE,
      output_json |-> TRUE, output_binary |-> FALSE,
      timeout |-> to, retries |-> n, delay_secs |-> 1, debug |-> dbg] :
        hs \in {None, Some(CallerHeaders)}, mp \in BOOLEAN,
        to \in {None, Some(0), Some(3)}, n \in {0, 1}, dbg \in BOOLEAN}

\* APIKIT_REQUEST_TIMEOUT_SECS unset, or set to 7.
InitDiag ==
    /\ args \in DiagnosticArgs
    /\ environ \in {None, Some(7)}
    /\ Constructed

SpecDiag == InitDiag /\ [][Next]_vars

\* ------------------------------------------- the calls and authenticate

\* The access tokens a caller passes: the empty one and a non-empty one.
Tokens == {"", "sometoken"}

InitAuth ==
    /\ args \in {a \in CallerArgs :
                    a.retries \in {0, 1} /\ a.output_json /\ ~a.output_binary}
    /\ environ = None
    /\ Constructed

\* authenticate(access_token), between two calls of request: its body is
\* `pass`, so it returns None for every token and writes nothing.
Authenticate(m, tok) ==
    /\ \A n \in Modes : call[n].pc \in {"idle", "done"}
    /\ Len(auth) < MaxAuthCalls
    /\ auth' = Append(auth, [mode |-> m, token |-> tok,
                             result |-> [kind |-> "return", value |-> None]])
    /\ UNCHANGED <<args, environ, script, call, url, heap, task>>

NextAuth == Next \/ \E m \in Modes, tok \in Tokens : Authenticate(m, tok)

SpecAuth == InitAuth /\ [][NextAuth]_vars

\* ------------------------------------- suspending calls run together

\* A headers argument that is the caller's dict itself: Python passes the
\* object, the dict's items are what heap holds at the moment.
SharedHeaders == [none |-> FALSE, ref |-> "caller"]

IsRef(h) == "ref" \in DOMAIN h

\* The items of a headers argument at this moment.
Deref(h) == IF IsRef(h) THEN Some(heap) ELSE h

\* The arguments of two calls on one event loop: each its own MsgPack flag
\* and retry budget, headers the caller's one dict or none.
TaskArgs ==
    {[path |-> AbsolutePath, method |-> me,
      params |-> Some(<< <<"q", JInt(1)>> >>), headers |-> hs,
      use_msgpack |-> mp, input_form_encoded |-> FALSE,
      output_json |-> TRUE, output_binary |-> FALSE,
      timeout |-> Some(3), retries |-> n, delay_secs |-> 1, debug |-> FALSE] :
        me \in {"GET", "POST"}, hs \in {None, SharedHeaders},
        mp \in BOOLEAN, n \in {0, 1}}

\* What an attempt of these calls meets: a response whose body parses.
TaskOutcomes == [kind : {"response"}, status_code : Statuses, body : {JsonBody}]

InitConc ==
    /\ args \in TaskArgs
    /\ environ = None
    /\ script = <<>>
    /\ call = [m \in Modes |-> Idle]
    /\ url = BaseUrl
    /\ auth = <<>>
    /\ heap = CallerHeaders
    /\ task \in [Tasks -> {[IdleTask EXCEPT !.given = a] : a \in TaskArgs}]
    /\ task["A"].given = args

\* asyncio.gather(kit.request(**a), kit.request(**b)): both coroutines are
\* created, neither has run.
Gather ==
    /\ \A t \in Tasks : task[t].pc = "idle"
    /\ task' = [t \in Tasks |-> [task[t] EXCEPT !.pc = "ready", !.cur = task[t].given]]
    /\ UNCHANGED <<args, environ, script, call, url, auth, heap>>

\* The locals of the invocation of task t when it reaches client.request,
\* its headers as the items the dict holds then.
TaskLocals(t) ==
    Locals([task[t].cur EXCEPT !.headers = Deref(task[t].cur.headers)], environ)

\* The invocation of task t runs, without suspending, from its first line
\* to `await client.request(...)`: the MsgPack branch sets Content-Type on
\* the dict it was passed when that dict is not empty (on a new dict
\* otherwise), and the request is built from the headers as they are then.
TaskSend(t) ==
    /\ task[t].pc = "ready"
    /\ LET c == task[t]
           loc == TaskLocals(t)
       IN /\ heap' = IF /\ IsRef(c.cur.headers)
                        /\ c.cur.method # "GET"
                        /\ c.cur.use_msgpack
                        /\ TruthyDict(Deref(c.cur.headers))
                     THEN loc.headers.v
                     ELSE heap
          /\ task' = [task EXCEPT ![t].pc = "waiting",
                                  ![t].waits = loc,
                                  ![t].sent = Append(@, Wire(loc))]
    /\ UNCHANGED <<args, environ, script, call, url, auth>>

\* The response of task t's request arrives: the invocation returns its
\* Response, which every invocation waiting for it returns on, or sleeps
\* and calls request again with the headers object it holds.
TaskReceive(t) ==
    /\ task[t].pc = "waiting"
    /\ \E o \in TaskOutcomes :
          LET c == task[t]
              st == TryBody("async", c.waits, o)
          IN task' = [task EXCEPT ![t] =
                 IF st.kind = "retry"
                 THEN [c EXCEPT !.pc = "ready",
                                !.waits = None,
                                !.cur = [RetryArgs(c.waits) EXCEPT !.headers =
                                            IF IsRef(c.cur.headers)
                                            THEN c.cur.headers
                                            ELSE c.waits.headers]]
                 ELSE [c EXCEPT !.pc = "done", !.waits = None]]
    /\ UNCHANGED <<args, environ, script, call, url, auth, heap>>

NextConc == Gather \/ \E t \in Tasks : TaskSend(t) \/ TaskReceive(t)

SpecConc == InitConc /\ [][NextConc]_vars

\* ------------------------------------------------------------ properties

Done(m) == call[m].pc = "done"

Returned(m) == Done(m) /\ call[m].result.kind = "return"

Raised(m) == Done(m) /\ call[m].result.kind = "raise"

\* The value a call returned.
Value(m) == call[m].result.value

\* A returned value that is a Response dict (request can also return None).
ReturnedResponse(m) == Returned(m) /\ "status_code" \in DOMAIN Value(m)

\* What the last attempt of a call met.
LastOutcome(m) == script[call[m].attempts]

\* The httpx failures of the transport: refused or unreachable, generic,
\* connect or read timeout, decode error.
TransportFailures ==
    {"ConnectError", "HTTPError", "ConnectTimeout", "ReadTimeout", "DecodingError"}

\* An attempt that fails: a transport failure or a non-2xx response.
Fails(o) ==
    IF o.kind = "raise" THEN o.exc \in TransportFailures
    ELSE ~(200 <= o.status_code /\ o.status_code <= 299)

\* attempt (sleep attempt)^n
Alternates(evs, n) ==
    /\ Len(evs) = 2 * n + 1
    /\ \A i \in 1..Len(evs) :
          evs[i] = IF i % 2 = 1 THEN "attempt" ELSE "sleep"

\* C1: a call whose last attempt met a transport failure, for any retry
\* budget >= 0, does not raise: it returns a Response with is_success false.
C1_NeverRaises ==
    \A m \in Modes :
        (/\ Done(m)
         /\ args.retries >= 0
         /\ LastOutcome(m).kind = "raise"
         /\ LastOutcome(m).exc \in TransportFailures)
        => (ReturnedResponse(m) /\ Value(m).is_success = FALSE)

DecodingFailureResponse(m) ==
    /\ LastOutcome(m).kind = "response"
    /\ LoadsExc(LastOutcome(m).body) \in {"DecodingError", "UnicodeDecodeError"}
    /\ Value(m).status_code = LastOutcome(m).status_code
    /\ {"data", "text"} \subseteq DOMAIN Value(m)

C3_AttemptsAndDelays ==
    \A m \in Modes :
        (/\ Done(m)
         /\ args.retries >= 0
         /\ \A k \in 1..call[m].attempts : Fails(script[k]))
        => /\ call[m].attempts = args.retries + 1
           /\ Alternates(call[m].events, args.retries)
           /\ ReturnedResponse(m)
           /\ Value(m).is_success = FALSE
           /\ LastOutcome(m).kind = "response"
                 => Value(m).status_code = LastOutcome(m).status_code

\* C4: each retry invocation gets the arguments of the invocation before
\* it with retries one less and every other field the same.
C4_RetryKeepsArguments ==
    \A m \in Modes :
        \A i \in 2..Len(call[m].log) :
            call[m].log[i] = [call[m].log[i - 1] EXCEPT !.retries = @ - 1]

\* C5: with retries = 0, a connect or read timeout yields the Response
\* with status_code -5, is_success false and the timeout summary.
C5_TimeoutSentinel ==
    \A m \in Modes :
        (/\ Done(m)
         /\ args.retries = 0
         /\ LastOutcome(m).kind = "raise"
         /\ LastOutcome(m).exc \in {"ConnectTimeout", "ReadTimeout"})
        => /\ ReturnedResponse(m)
           /\ Value(m).status_code = -5
           /\ Value(m).is_success = FALSE
           /\ Value(m).summary
                 = "Timeout (" \o ToString(EffectiveTimeout(args.timeout, environ))
                   \o "s) for " \o args.path

\* C6: with retries = 0, a failure before any response yields status_code
\* -3 (summary "Connection error: ...") for a refused or unreachable
\* connection and -4 for another transport error, with is_success false
\* and no data, text or content.
C6_ConnectionSentinels ==
    \A m \in Modes :
        (/\ Done(m)
         /\ args.retries = 0
         /\ LastOutcome(m).kind = "raise"
         /\ LastOutcome(m).exc \in {"ConnectError", "HTTPError"})
        => /\ ReturnedResponse(m)
           /\ Value(m).is_success = FALSE
           /\ DOMAIN Value(m) \cap {"data", "text", "content"} = {}
           /\ IF LastOutcome(m).exc = "ConnectError"
              THEN /\ Value(m).status_code = -3
                   /\ Value(m).summary
                         = "Connection error: " \o ExcType("ConnectError") \o " "
                           \o ExcMsg("ConnectError") \o " " \o args.path
              ELSE Value(m).status_code = -4

\* The last attempt's response could not be decoded: the transport raised
\* DecodingError or UnicodeDecodeError on its body, or json.loads did.
DecodingFailed(m) ==
    IF LastOutcome(m).kind = "raise"
    THEN LastOutcome(m).exc \in {"DecodingError", "UnicodeDecodeError"}
    ELSE /\ ParseFails(args, LastOutcome(m))
         /\ LoadsExc(LastOutcome(m).body) \in {"DecodingError", "UnicodeDecodeError"}

\* C7: with retries = 0, a decoding failure on a received response yields
\* a Response with the real status code (no negative sentinel), data = {},
\* text = the raw text and summary "{status_code} error {message}".
C7_DecodingKeepsStatus ==
    \A m \in Modes :
        (Done(m) /\ args.retries = 0 /\ DecodingFailed(m))
        => /\ ReturnedResponse(m)
           /\ Value(m).status_code >= 0
           /\ {"data", "text"} \subseteq DOMAIN Value(m)
           /\ Value(m).data = EmptyObject
           /\ LastOutcome(m).kind = "response"
                 => /\ Value(m).status_code = LastOutcome(m).status_code
                    /\ Value(m).text = Text(LastOutcome(m))
                    /\ Value(m).summary
                          = ToString(LastOutcome(m).status_code) \o " error "
                            \o ExcMsg(LoadsExc(LastOutcome(m).body))

\* C8: with output_json selected, retries = 0 and a non-empty body that is
\* not valid JSON, the call returns the Response of a decoding failure:
\* the real status code, data = {} and the raw text.
C8_ParseFailureIsCaught ==
    \A m \in Modes :
        (/\ Done(m)
         /\ args.retries = 0
         /\ LastOutcome(m).kind = "response"
         /\ ParseFails(args, LastOutcome(m)))
        => /\ ReturnedResponse(m)
           /\ Value(m).status_code = LastOutcome(m).status_code
           /\ {"data", "text"} \subseteq DOMAIN Value(m)
           /\ Value(m).data = EmptyObject
           /\ Value(m).text = Text(LastOutcome(m))

\* C9: on the same arguments and the same script the blocking and the
\* suspending call make the same number of attempts and end alike: both
\* raise, or both return the same value.
C9_SyncAsyncEquivalent ==
    (Done("sync") /\ Done("async"))
    => /\ call["sync"].attempts = call["async"].attempts
       /\ \/ Raised("sync") /\ Raised("async")
          \/ /\ Returned("sync")
             /\ Returned("async")
             /\ Value("sync") = Value("async")

\* C10: a Response built from a received response carries the payload of
\* the caller's output mode, and only that one: content when output_binary,
\* otherwise data when output_json, otherwise text.
C10_PayloadFollowsOutputMode ==
    \A m \in Modes :
        (/\ ReturnedResponse(m)
         /\ LastOutcome(m).kind = "response"
         /\ ~ParseFails(call[m].log[call[m].attempts], LastOutcome(m)))
        => LET v == Value(m)
               r == LastOutcome(m)
               payload == DOMAIN v \cap {"content", "data", "text"}
           IN IF args.output_binary
              THEN payload = {"content"} /\ v.content = Content(r)
              ELSE IF args.output_json
              THEN /\ payload = {"data"}
                   /\ v.data = IF Content(r) # EmptyBody THEN Loads(Content(r))
                               ELSE EmptyObject
              ELSE payload = {"text"} /\ v.text = Text(r)

\* The header of that name among the stringified headers sent, None when
\* it is not sent.
SentHeader(w, name) ==
    IF w.headers.none \/ ~\E i \in 1..Len(w.headers.v) : w.headers.v[i][1] = name
    THEN None
    ELSE LET i == CHOOSE i \in 1..Len(w.headers.v) : w.headers.v[i][1] = name
         IN Some(w.headers.v[i][2])

\* Every value of the pairs is a str.
AllStrings(pairs) == \A i \in 1..Len(pairs) : pairs[i][2].t = "str"

\* C11: each invocation encodes by priority GET > MsgPack > form > JSON
\* over the arguments it was given: a GET sends its params as stringified
\* query pairs when there are any and no query otherwise, and no body; a
\* MsgPack request sends a MessagePack body with Content-Type
\* application/msgpack; a form request a form body; any other a JSON body;
\* every header value is sent as a string.
C11_EncodingPriority ==
    \A m \in Modes :
        \A i \in 1..Len(call[m].sent) :
            LET a == call[m].log[i]
                w == call[m].sent[i]
            IN /\ w.headers.none \/ AllStrings(w.headers.v)
               /\ IF a.method = "GET"
                  THEN /\ w.body = None
                       /\ IF ~a.params.none /\ a.params.v # <<>>
                          THEN /\ ~w.query.none
                               /\ AllStrings(w.query.v)
                               /\ Len(w.query.v) = Len(a.params.v)
                               /\ \A j \in 1..Len(a.params.v) :
                                     w.query.v[j][1] = a.params.v[j][1]
                          ELSE w.query = None
                  ELSE /\ w.query = None
                       /\ ~w.body.none
                       /\ w.body.of = a.params
                       /\ w.body.enc = IF a.use_msgpack THEN "msgpack"
                                       ELSE IF a.input_form_encoded THEN "form"
                                       ELSE "json"
                       /\ a.use_msgpack
                             => SentHeader(w, "Content-Type")
                                  = Some(JStr("application/msgpack"))

\* A non-GET invocation given both use_msgpack and input_form_encoded sent
\* a MessagePack body, with an int header value sent as its digits.
C11_Witness ==
    \E m \in Modes :
        \E i \in 1..Len(call[m].sent) :
            /\ call[m].log[i].method = "POST"
            /\ call[m].log[i].use_msgpack
            /\ call[m].log[i].input_form_encoded
            /\ call[m].sent[i].body.enc = "msgpack"
            /\ SentHeader(call[m].sent[i], "X-Count") = Some(JStr("7"))

\* C12: on every attempt the URL handed to the transport is the base URL
\* of the constructor joined with a relative path, and an absolute path as
\* it is.
C12_RelativePathJoinsBase ==
    \A m \in Modes :
        \A i \in 1..Len(call[m].sent) :
            call[m].sent[i].url
                = IF call[m].log[i].path = RelativePath
                  THEN url \o call[m].log[i].path
                  ELSE call[m].log[i].path

\* C13: when a call has completed, with a success Response, a failure
\* Response or an exception, every client context its attempts opened has
\* been closed; while it runs, the open contexts are those of the
\* invocations still inside their with block.
C13_ClientsReleased ==
    \A m \in Modes :
        /\ Done(m) => (call[m].open = 0 /\ call[m].attempts >= 1)
        /\ call[m].open >= 0
        /\ call[m].open <= call[m].attempts

\* A call completed by an exception that left through two nested with
\* blocks, and one completed by a Response after a retry.
C13_Witness ==
    /\ \E m \in Modes : Raised(m) /\ call[m].attempts >= 2 /\ call[m].open = 0
    /\ \E m \in Modes :
          ReturnedResponse(m) /\ call[m].attempts >= 2 /\ call[m].open = 0

\* The request a call run together with others transmits first when it
\* depends on its own arguments only, the headers dict as the caller
\* filled it.
OwnWire(t) ==
    Wire(Locals([task[t].given EXCEPT !.headers =
                    IF IsRef(@) THEN Some(CallerHeaders) ELSE @], environ))

\* C14: calls run together are independent: none changes the headers dict
\* the caller passed, and the request each transmits is the one its own
\* arguments, as they were when it was called, determine.
C14_ConcurrentCallsIndependent ==
    /\ heap = CallerHeaders
    /\ \A t \in Tasks :
          task[t].sent # <<>> => task[t].sent[1] = OwnWire(t)

\* C15: with output_json selected and output_binary not, a Response built
\* from a response with an empty body has data = {}, whatever the status
\* code, and carries that status code.
C15_EmptyBodyIsEmptyObject ==
    \A m \in Modes :
        (/\ ReturnedResponse(m)
         /\ args.output_json
         /\ ~args.output_binary
         /\ LastOutcome(m).kind = "response"
         /\ LastOutcome(m).body = EmptyBody)
        => /\ "data" \in DOMAIN Value(m)
           /\ Value(m).data = EmptyObject
           /\ Value(m).status_code = LastOutcome(m).status_code

\* A call returned data = {} for the empty body of a 500 response that its
\* second attempt received.
C15_Witness ==
    /\ args.output_json
    /\ ~args.output_binary
    /\ \E m \in Modes :
          /\ ReturnedResponse(m)
          /\ call[m].attempts = 2
          /\ LastOutcome(m) = [kind |-> "response", status_code |-> 500,
                               body |-> EmptyBody]
          /\ Value(m).status_code = 500
          /\ Value(m).data = EmptyObject

\* C16: every attempt is sent with the caller's timeout when the caller
\* passed one, whatever integer it is, and with
\* APIKIT_REQUEST_TIMEOUT_SECS (5 when unset) only when the caller passed
\* none; retry attempts use the same timeout as the first.
C16_ExplicitTimeoutWins ==
    \A m \in Modes :
        \A i \in 1..Len(call[m].sent) :
            call[m].sent[i].timeout
                = IF ~args.timeout.none THEN args.timeout.v
                  ELSE IF environ.none THEN DefaultTimeoutSecs ELSE environ.v

\* C17: APIKit.authenticate raises APIKitException ("Invalid Access
\* Token") for the empty access token and returns normally for a non-empty
\* one.
C17_EmptyTokenRejected ==
    \A i \in 1..Len(auth) :
        auth[i].mode = "sync"
        => IF auth[i].token = ""
           THEN /\ auth[i].result.kind = "raise"
                /\ auth[i].result.exc = "APIKitException"
           ELSE auth[i].result.kind = "return"

\* Attempt k of the call received a response with a status in 200..299.
Got2xx(k) ==
    /\ script[k].kind = "response"
    /\ 200 <= script[k].status_code
    /\ script[k].status_code <= 299

\* Attempt k was the call's last, no sleep followed it, and the call, once
\* ended, returned the success Response of that attempt.
EndsWith(m, k) ==
    /\ call[m].attempts = k
    /\ call[m].events[Len(call[m].events)] = "attempt"
    /\ Done(m) => /\ ReturnedResponse(m)
                  /\ Value(m).status_code = script[k].status_code
                  /\ Value(m).is_success = TRUE

\* C18 as stated: once an attempt has received a 2xx response, the call
\* makes no further attempt and no further delay, whatever budget remains,
\* and returns that attempt's Response.
C18_SuccessEndsRetries ==
    \A m \in Modes :
        \A k \in 1..call[m].attempts : Got2xx(k) => EndsWith(m, k)

\* C18, amended: once an attempt has received a 2xx response from whose
\* body the invocation can build its payload (binary or text output, an
\* empty body, or a body json.loads parses), the call makes no further
\* attempt and no further delay, whatever budget remains, and returns that
\* attempt's Response.
C18_ParsedSuccessEndsRetries ==
    \A m \in Modes :
        \A k \in 1..call[m].attempts :
            (Got2xx(k) /\ ~ParseFails(call[m].log[k], script[k]))
            => EndsWith(m, k)

\* A call with a budget of two retries ended at its second attempt, which
\* received a 200 response, with one retry left.
C18_Witness ==
    \E m \in Modes :
        /\ args.retries = 2
        /\ Done(m)
        /\ call[m].attempts = 2
        /\ Got2xx(2)
        /\ call[m].log[2].retries = 1
        /\ ReturnedResponse(m)
        /\ Value(m).is_success = TRUE
        /\ call[m].events = <<"attempt", "sleep", "attempt">>

\* The locals of an invocation with every header value replaced by one
\* fixed value: what two calls that differ in header values only share.
ScrubbedHeaders(loc) ==
    [loc EXCEPT !.headers =
        IF @.none THEN @
        ELSE Some([i \in 1..Len(@.v) |-> <<@.v[i][1], JStr("*")>>])]

\* C19: the lines an attempt prints do not depend on the header values
\* unless its response has a status below 400 and debug is set: for a
\* status >= 400 (and for an attempt that raised, or without debug) they
\* are the lines the same invocation prints with every header value
\* replaced, so two calls that differ in header values only print the same.
C19_HeaderValuesRedacted ==
    \A m \in Modes :
        \A k \in 1..Len(call[m].echo) :
            LET loc == Locals(call[m].log[k], environ)
                o == script[k]
            IN (o.kind = "raise" \/ o.status_code >= 400 \/ ~loc.debug)
               => call[m].echo[k] = TryBody(m, ScrubbedHeaders(loc), o).out

\* An attempt sent with the Authorization and X-Count headers received a
\* 500 response and echoed its request line with "?" for both values.
C19_Witness ==
    \E m \in Modes :
        \E k \in 1..Len(call[m].echo) :
            /\ script[k].kind = "response"
            /\ script[k].status_code = 500
            /\ call[m].log[k].debug
            /\ SentHeader(call[m].sent[k], "Authorization") = Some(JStr("secret"))
            /\ Len(call[m].echo[k]) >= 2
            /\ call[m].echo[k][1]
                  = "http --follow --verify=no POST https://api.test/status/ping "
                    \o "q:=b'1' Authorization:? X-Count:?"

\* The attempts, budgets and delays of call m stay within the budget the
\* caller passed.
WithinBudget(m) ==
    /\ call[m].attempts <= (IF args.retries > 0 THEN args.retries ELSE 0) + 1
    /\ \A i \in 2..Len(call[m].log) :
          /\ call[m].log[i].retries = call[m].log[i - 1].retries - 1
          /\ args.retries >= 0 => call[m].log[i].retries >= 0
    /\ (args.retries <= 0 /\ Done(m))
          => (call[m].attempts = 1 /\ call[m].events = <<"attempt">>)

\* C20: a call makes at most max(retries, 0) + 1 attempts, each retry
\* invocation has a budget one below the invocation before it and never a
\* negative one when the caller's is not, and a budget <= 0 gives exactly
\* one attempt and no delay.
C20_AttemptsWithinBudget == \A m \in Modes : WithinBudget(m)

\* The caller passed a Content-Type header of its own.
CallerSentContentType ==
    /\ ~args.headers.none
    /\ \E i \in 1..Len(args.headers.v) : args.headers.v[i][1] = "Content-Type"

\* The request declares a MessagePack body exactly when it carries one.
ContentTypeMatchesBody(w) ==
    (SentHeader(w, "Content-Type") = Some(JStr("application/msgpack")))
    <=> (~w.body.none /\ w.body.enc = "msgpack")

\* C21: on every attempt of a call, retry attempts included, the header
\* Content-Type: application/msgpack is sent if and only if the body of
\* that attempt is MessagePack-encoded, unless the caller passed that
\* header.
C21_ContentTypeMatchesBody ==
    \A m \in Modes :
        \A i \in 1..Len(call[m].sent) :
            ~CallerSentContentType => ContentTypeMatchesBody(call[m].sent[i])

====
